---- MODULE Spec2Model ----
(***************************************************************************)
(* The market of game/economy/market/mod.rs: Offer, Market and             *)
(* TripCostEstimator actors exchanging asynchronous messages.              *)
(*                                                                         *)
(* Messages between the modelled actors are queued in one FIFO inbox per   *)
(* recipient and handled one at a time, to completion.  Calls made by the  *)
(* callers of the module (households spawning and withdrawing offers,      *)
(* searching, using) and replies of the pathfinding subsystem arrive at an *)
(* arbitrary moment, so each is modelled by the handler running at an      *)
(* arbitrary moment.  An EvaluationRequester is an actor of the callers    *)
(* that sends nothing back: its inbox being FIFO, what it receives is the  *)
(* sequence of messages sent to it, and each message is recorded as        *)
(* received when it is sent.  A message to an actor that has died is never *)
(* handled and stays in its inbox.  A household is an actor of the callers *)
(* too: the provide_deal and receive_deal messages an offer sends it are   *)
(* recorded as received when sent.  A handler that panics leaves its actor *)
(* as it was, marked as panicked, and the actor handles nothing further.   *)
(***************************************************************************)
EXTENDS Integers, Sequences, FiniteSets, TLC

\* ------------------------------------------------------------------ bounds
MaxSearches == 1
MaxWithdraws == 1
MaxUsers == 2
MaxEntries == 3
MaxTrades == 2

\* ---------------------------------------------------------------- universe
OfferIDs == {"o1", "o2"}
ResourceIds == {"food", "coin"}
RoughLocationIDs == {"l1", "l2"}
RequesterIDs == {"q1"}
HouseholdIDs == {"h1", "h2"}
MemberIdxs == {0}
Offerers == {"h1"}
SearchIDs == 1 .. MaxSearches

\* Option<T>: None is the empty sequence, Some(x) the one-element sequence.
None == <<>>
Some(x) == <<x>>
IsSome(opt) == opt # <<>>
Unwrap(opt) == opt[1]

\* A Deal is [duration, delta]; delta is the Inventory in insertion order.
FoodDeal == [duration |-> 30, delta |-> << <<"food", 5>>, <<"coin", -2>> >>]
CoinDeal == [duration |-> 20, delta |-> << <<"food", -1>>, <<"coin", 3>> >>]
Deals == {FoodDeal, CoinDeal}

\* The deltas a Deal is constructed from: up to MaxEntries entries in
\* insertion order, one per resource, of negative, zero or positive amount.
DeltaResources == {"food", "coin", "wood", "iron"}
Amounts == {-1, 0, 2}
Entries == DeltaResources \X Amounts
Deltas ==
    UNION { { delta \in [1 .. n -> Entries] :
                \A i, j \in 1 .. n : i # j => delta[i][1] # delta[j][1] }
            : n \in 0 .. MaxEntries }
Durations == {30}

\* Validity windows [from, to) in time-of-day units, and search instants.
Windows == { <<480, 1080>> }
Instants == {420, 1080, 1500}
Distances == {0, 1000, 1005}

\* The concrete Location a rough location resolves to, when it resolves.
LocationOf(rough) == [node |-> rough]
LocationOptions(rough) == {None, Some(LocationOf(rough))}
DistanceOptions == {None} \cup {Some(d) : d \in Distances}

\* The last element of a non-empty sequence, and a sequence without its i-th.
Last(seq) == seq[Len(seq)]
RemoveAt(seq, i) == SubSeq(seq, 1, i - 1) \o SubSeq(seq, i + 1, Len(seq))

\* ---------------------------------------------------- code outside of src/
DayLength == 1440
\* TimeOfDay::from_instant (core::simulation)
TimeOfDay_from_instant(instant) == instant % DayLength
\* TimeOfDay -= Duration (core::simulation)
TimeOfDay_sub(time, duration) == time - duration

\* ------------------------------------------------------------------- Deal
\* Faulty variant of FirstPositive: `>=` for `>`, a zero amount is given too.
RECURSIVE FirstPositive_or_zero(_)
FirstPositive_or_zero(delta) ==
    IF delta = <<>> THEN None
    ELSE IF Head(delta)[2] >= 0 THEN Some(Head(delta)[1])
    ELSE FirstPositive_or_zero(Tail(delta))

\* filter_map(amount > 0.0).next(): the first resource of positive amount.
RECURSIVE FirstPositive(_)
FirstPositive(delta) ==
    IF delta = <<>> THEN None
    ELSE IF Head(delta)[2] > 0 THEN Some(Head(delta)[1])
    ELSE FirstPositive(Tail(delta))

\* Deal::main_given; None stands for the panic of unwrap().
main_given(deal) == FirstPositive(deal.delta)

\* ------------------------------------------------------------------ state
VARIABLES
    offer,               \* OfferID -> the Offer actor (fate and fields)
    offerInbox,          \* OfferID -> messages sent to the offer by the Market
    withdrawCalls,       \* OfferID -> number of withdraw calls handled
    lastUse,             \* OfferID -> the last started_using/stopped_using calls
    offers_by_resource,  \* Market.offers_by_resource (a partial map)
    marketInbox,         \* messages sent to the Market by the offers
    searches,            \* SearchID -> what Market.search did for it
    estimator,           \* estimator id -> the TripCostEstimator actor
    estimatorInbox,      \* estimator id -> spawn and done messages
    resolving,           \* estimator id -> rough locations asked, unanswered
    pathfinding,         \* estimator id -> distance requests, unanswered
    history,             \* estimator id -> what the estimator has done
    requester,           \* RequesterID -> what the requester has received
    lastDeal,            \* the Deal last constructed and what main_given made of it
    legs,                \* HouseholdID -> provide_deal/receive_deal messages received
    trades               \* OfferID -> the request_receive_(undo_)deal calls handled

vars == << offer, offerInbox, withdrawCalls, lastUse, offers_by_resource, marketInbox,
           searches, estimator, estimatorInbox, resolving, pathfinding,
           history, requester, lastDeal, legs, trades >>

offerVars == << offer, offerInbox, withdrawCalls, lastUse >>
marketVars == << offers_by_resource, marketInbox, searches >>
estimatorVars == << estimator, estimatorInbox, resolving, pathfinding, history >>
requesterVars == << requester >>
callerVars == << lastDeal, legs, trades >>

Unspawned == [fate |-> "unspawned"]

Init ==
    /\ offer = [o \in OfferIDs |-> Unspawned]
    /\ offerInbox = [o \in OfferIDs |-> <<>>]
    /\ withdrawCalls = [o \in OfferIDs |-> 0]
    /\ lastUse = [o \in OfferIDs |-> [call |-> "none"]]
    /\ offers_by_resource = <<>>
    /\ marketInbox = <<>>
    /\ searches = [s \in SearchIDs |-> [handled |-> FALSE]]
    /\ estimator = <<>>
    /\ estimatorInbox = <<>>
    /\ resolving = <<>>
    /\ pathfinding = <<>>
    /\ history = <<>>
    /\ requester = [q \in RequesterIDs |->
                      [expected |-> [s \in SearchIDs |-> None],
                       received |-> [s \in SearchIDs |-> 0],
                       early |-> [s \in SearchIDs |-> 0],
                       empty |-> [s \in SearchIDs |-> 0],
                       resources |-> [s \in SearchIDs |-> {}]]]
    /\ lastDeal = [state |-> "none"]
    /\ legs = [h \in HouseholdIDs |-> <<>>]
    /\ trades = [o \in OfferIDs |-> <<>>]

\* Deal::new: the entries are collected in the order given.
Deal_new(delta, duration) ==
    /\ lastDeal.state = "none"
    /\ lastDeal' = [state |-> "new", deal |-> [duration |-> duration, delta |-> delta]]
    /\ UNCHANGED << offerVars, marketVars, estimatorVars, requesterVars, legs, trades >>

\* A call of Deal::main_given on the Deal constructed: it returns a resource
\* or panics.
Deal_main_given ==
    /\ lastDeal.state = "new"
    /\ lastDeal' = [state |-> IF IsSome(main_given(lastDeal.deal))
                              THEN "returned" ELSE "panicked",
                    deal |-> lastDeal.deal,
                    result |-> main_given(lastDeal.deal)]
    /\ UNCHANGED << offerVars, marketVars, estimatorVars, requesterVars, legs, trades >>

\* ---------------------------------------------------- EvaluationRequester
\* expect_n_results, as received by requester q for search s.
expect_n_results(all, q, resource, n, s) ==
    [all EXCEPT ![q].expected[s] = Some(n),
                ![q].resources[s] = @ \cup {resource}]

\* on_result, as received by requester q for search s: `early` counts the
\* results received before the expected number was, `empty` those without a
\* deal, `resources` collects the resources named.
on_result(all, q, result, s) ==
    [all EXCEPT ![q].received[s] = @ + 1,
                ![q].early[s] = IF IsSome(all[q].expected[s]) THEN @ ELSE @ + 1,
                ![q].empty[s] = IF result.evaluated_deals = <<>> THEN @ + 1 ELSE @,
                ![q].resources[s] = @ \cup {result.resource}]

\* ------------------------------------------------------------------ Offer
NewOffer(id, offerer, offering_member, location, from, to, deal, registered) ==
    [fate |-> "alive", id |-> id, offerer |-> offerer,
     offering_member |-> offering_member, location |-> location,
     from |-> from, to |-> to, deal |-> deal, users |-> <<>>,
     registered |-> registered]

\* Offer::register: tells the Market to index the offer under main_given.
Offer_register(id, offerer, offering_member, location, from, to, deal) ==
    /\ offer[id].fate = "unspawned"
    /\ IsSome(main_given(deal))
    /\ marketInbox' = Append(marketInbox,
           [type |-> "register", resource |-> Unwrap(main_given(deal)),
            offer |-> id])
    /\ offer' = [offer EXCEPT ![id] =
           NewOffer(id, offerer, offering_member, location, from, to, deal, TRUE)]
    /\ UNCHANGED << offerInbox, withdrawCalls, lastUse, offers_by_resource, searches >>
    /\ UNCHANGED << estimatorVars, requesterVars >>
    /\ UNCHANGED callerVars

\* Faulty variant of private_sends: a private offer registers as well.
private_sends_register(id, deal) ==
    << [type |-> "register", resource |-> Unwrap(main_given(deal)), offer |-> id] >>

\* Offer::private, the messages it sends to the Market: none (`_: &mut World`).
private_sends(id, deal) == <<>>

\* Offer::private: the same construction, nothing sent to the Market.
Offer_private(id, offerer, offering_member, location, from, to, deal) ==
    /\ offer[id].fate = "unspawned"
    /\ offer' = [offer EXCEPT ![id] =
           NewOffer(id, offerer, offering_member, location, from, to, deal, FALSE)]
    /\ marketInbox' = marketInbox \o private_sends(id, deal)
    /\ UNCHANGED << offerInbox, withdrawCalls, lastUse, offers_by_resource, searches >>
    /\ UNCHANGED << estimatorVars, requesterVars >>
    /\ UNCHANGED callerVars

RECURSIVE SumOver(_, _)
SumOver(f, S) ==
    IF S = {} THEN 0
    ELSE LET x == CHOOSE y \in S : TRUE IN f[x] + SumOver(f, S \ {x})

WithdrawCallsMade == SumOver(withdrawCalls, OfferIDs)

\* Offer::withdraw: asks the Market to withdraw; the offer stays alive.
Offer_withdraw(id) ==
    /\ offer[id].fate = "alive"
    /\ WithdrawCallsMade < MaxWithdraws
    /\ IsSome(main_given(offer[id].deal))
    /\ marketInbox' = Append(marketInbox,
           [type |-> "withdraw", resource |-> Unwrap(main_given(offer[id].deal)),
            offer |-> offer[id].id])
    /\ withdrawCalls' = [withdrawCalls EXCEPT ![id] = @ + 1]
    /\ UNCHANGED << offer, offerInbox, lastUse, offers_by_resource, searches >>
    /\ UNCHANGED << estimatorVars, requesterVars >>
    /\ UNCHANGED callerVars

\* Offer::withdrawal_confirmed: Fate::Die.
Offer_withdrawal_confirmed(id) ==
    /\ offer[id].fate = "alive"
    /\ offerInbox[id] # <<>>
    /\ Head(offerInbox[id]).type = "withdrawal_confirmed"
    /\ offerInbox' = [offerInbox EXCEPT ![id] = Tail(@)]
    /\ offer' = [offer EXCEPT ![id].fate = "dead"]
    /\ UNCHANGED << withdrawCalls, lastUse, marketVars, estimatorVars, requesterVars >>
    /\ UNCHANGED callerVars

\* Offer::evaluate, the branch taken: the offer is still valid at `instant`.
\* Faulty variant of StillValid: the window's start is checked too.
StillValid_from(instant, from, to) ==
    from <= TimeOfDay_from_instant(instant) /\ TimeOfDay_from_instant(instant) < to

StillValid(instant, from, to) == TimeOfDay_from_instant(instant) < to

\* The EvaluatedSearchResult evaluate builds for a valid offer.
SingleResult(self) ==
    [resource |-> Unwrap(main_given(self.deal)),
     evaluated_deals |-> << [offer |-> self.id, deal |-> self.deal,
                             from |-> self.from, to |-> self.to] >>]

EmptyResult(resource) == [resource |-> resource, evaluated_deals |-> <<>>]

\* What is noted of an estimator: the messages handled, the distance requests
\* and replies sent, and whether its offer had died before it replied.
NewHistory ==
    [handled |-> <<>>, requests |-> <<>>, replies |-> <<>>, n_replies |-> 0,
     orphan |-> FALSE]

\* Offer::evaluate: spawns a TripCostEstimator, or answers with an empty result.
Offer_evaluate(id) ==
    /\ offer[id].fate = "alive"
    /\ offerInbox[id] # <<>>
    /\ Head(offerInbox[id]).type = "evaluate"
    /\ IsSome(main_given(offer[id].deal))
    /\ LET msg == Head(offerInbox[id])
           self == offer[id]
           e == << msg.search, msg.idx >>
       IN  /\ offerInbox' = [offerInbox EXCEPT ![id] = Tail(@)]
           /\ IF StillValid(msg.instant, self.from, self.to)
              THEN /\ estimator' = estimator @@ (e :> [fate |-> "spawning"])
                   /\ estimatorInbox' = estimatorInbox @@ (e :> <<
                          [type |-> "spawn", requester |-> msg.requester,
                           rough_source |-> msg.location,
                           rough_destination |-> self.location,
                           base_result |-> SingleResult(self),
                           instant |-> msg.instant, search |-> msg.search] >>)
                   /\ resolving' = resolving @@ (e :> <<>>)
                   /\ pathfinding' = pathfinding @@ (e :> <<>>)
                   /\ history' = history @@ (e :> NewHistory)
                   /\ UNCHANGED requester
              ELSE /\ requester' = on_result(requester, msg.requester,
                          EmptyResult(Unwrap(main_given(self.deal))), msg.search)
                   /\ UNCHANGED estimatorVars
    /\ UNCHANGED << offer, withdrawCalls, lastUse, marketVars >>
    /\ UNCHANGED callerVars

\* Faulty variant of KeptBy: `&&` for `||`, an entry must differ in both to be kept.
KeptBy_both(entry, household, member) == entry[1] # household /\ entry[2] # member

\* The closure of stopped_using: the entries retain keeps.
KeptBy(entry, household, member) == entry[1] # household \/ entry[2] # member

\* Offer::started_using: users.push((household, member)).
Offer_started_using(id, household, member) ==
    /\ offer[id].fate = "alive"
    /\ Len(offer[id].users) < MaxUsers
    /\ offer' = [offer EXCEPT ![id].users = Append(@, << household, member >>)]
    /\ lastUse' = [lastUse EXCEPT ![id] =
           [call |-> "started_using", pair |-> << household, member >>,
            before |-> offer[id].users]]
    /\ UNCHANGED << offerInbox, withdrawCalls, marketVars, estimatorVars, requesterVars >>
    /\ UNCHANGED callerVars

\* Offer::stopped_using: users.retain(...).  lastUse notes a stopped_using
\* that follows the started_using of the same pair.
Offer_stopped_using(id, household, member) ==
    /\ offer[id].fate = "alive"
    /\ offer' = [offer EXCEPT ![id].users =
           SelectSeq(@, LAMBDA entry : KeptBy(entry, household, member))]
    /\ lastUse' = [lastUse EXCEPT ![id] =
           IF /\ lastUse[id].call = "started_using"
              /\ lastUse[id].pair = << household, member >>
           THEN [call |-> "round_trip", pair |-> << household, member >>,
                 before |-> lastUse[id].before]
           ELSE [call |-> "stopped_using", pair |-> << household, member >>,
                 before |-> offer[id].users]]
    /\ UNCHANGED << offerInbox, withdrawCalls, marketVars, estimatorVars, requesterVars >>
    /\ UNCHANGED callerVars

\* A one-way message to a household, recorded as received when sent.
Sent(all, messages) ==
    IF Len(messages) = 0 THEN all
    ELSE IF Len(messages) = 1
    THEN [all EXCEPT ![messages[1].to] = Append(@, messages[1].message)]
    ELSE LET first == [all EXCEPT ![messages[1].to] = Append(@, messages[1].message)]
         IN  [first EXCEPT ![messages[2].to] = Append(@, messages[2].message)]

provide_deal(deal, member) == [type |-> "provide_deal", deal |-> deal, member |-> member]
receive_deal(deal, member) == [type |-> "receive_deal", deal |-> deal, member |-> member]

\* request_receive_deal, the two messages in the order sent.
commit_legs(self, household, member) ==
    << [to |-> self.offerer, message |-> provide_deal(self.deal, self.offering_member)],
       [to |-> household, message |-> receive_deal(self.deal, member)] >>

\* Faulty variant of undo_legs: the offerer provides again.
undo_legs_provide(self, household, member) ==
    << [to |-> self.offerer, message |-> provide_deal(self.deal, self.offering_member)],
       [to |-> household, message |-> provide_deal(self.deal, member)] >>

\* request_receive_undo_deal, the two messages in the order sent.
undo_legs(self, household, member) ==
    << [to |-> self.offerer, message |-> receive_deal(self.deal, self.offering_member)],
       [to |-> household, message |-> provide_deal(self.deal, member)] >>

\* Offer::request_receive_deal
Offer_request_receive_deal(id, household, member) ==
    /\ offer[id].fate = "alive"
    /\ Len(trades[id]) < MaxTrades
    /\ legs' = Sent(legs, commit_legs(offer[id], household, member))
    /\ trades' = [trades EXCEPT ![id] =
           Append(@, [call |-> "request_receive_deal", household |-> household,
                      member |-> member])]
    /\ UNCHANGED << offerVars, marketVars, estimatorVars, requesterVars, lastDeal >>

\* Offer::request_receive_undo_deal
Offer_request_receive_undo_deal(id, household, member) ==
    /\ offer[id].fate = "alive"
    /\ Len(trades[id]) < MaxTrades
    /\ legs' = Sent(legs, undo_legs(offer[id], household, member))
    /\ trades' = [trades EXCEPT ![id] =
           Append(@, [call |-> "request_receive_undo_deal", household |-> household,
                      member |-> member])]
    /\ UNCHANGED << offerVars, marketVars, estimatorVars, requesterVars, lastDeal >>

\* ----------------------------------------------------------------- Market
\* CDict::get
get(dict, resource) ==
    IF resource \in DOMAIN dict THEN Some(dict[resource]) ELSE None

\* Faulty variant of push_at: the offer is put at the front of the list.
push_at_front(dict, resource, id) ==
    IF resource \in DOMAIN dict
    THEN [dict EXCEPT ![resource] = << id >> \o @]
    ELSE dict @@ (resource :> << id >>)

\* CDict::push_at: appends to the resource's list, creating it when missing.
push_at(dict, resource, id) ==
    IF resource \in DOMAIN dict
    THEN [dict EXCEPT ![resource] = Append(@, id)]
    ELSE dict @@ (resource :> << id >>)

\* Faulty variant of retain_others: the test is inverted, the others are removed.
retain_same(offers, id) == SelectSeq(offers, LAMBDA o : o = id)

\* Faulty variant of retain_others: nothing is removed.
retain_all(offers, id) == offers

\* CVec::retain(|o| *o != offer)
retain_others(offers, id) == SelectSeq(offers, LAMBDA o : o # id)

\* The Market has handled the register message of offer o.
RegisterProcessed(o) ==
    /\ offer[o].fate # "unspawned"
    /\ offer[o].registered
    /\ Len(SelectSeq(marketInbox, LAMBDA m : m.type = "register" /\ m.offer = o)) = 0

\* The Market has handled a withdraw message of offer o.
WithdrawProcessed(o) ==
    withdrawCalls[o] > Len(SelectSeq(marketInbox, LAMBDA m : m.type = "withdraw" /\ m.offer = o))

\* Market::search, the loop: one evaluate per entry of the list, in order.
RECURSIVE SendEvaluates(_, _, _, _)
SendEvaluates(inboxes, offers, k, msg) ==
    IF k > Len(offers) THEN inboxes
    ELSE SendEvaluates(
             [inboxes EXCEPT ![offers[k]] = Append(@, [msg EXCEPT !.idx = k])],
             offers, k + 1, msg)

\* Faulty variant of n_to_expect: the offers of every resource are counted.
n_to_expect_all(dict, resource) ==
    SumOver([r \in ResourceIds |-> IF r \in DOMAIN dict THEN Len(dict[r]) ELSE 0],
            ResourceIds)

\* Market::search, the count reported to the requester.
n_to_expect(dict, resource) ==
    IF IsSome(get(dict, resource)) THEN Len(Unwrap(get(dict, resource))) ELSE 0

\* Faulty variant of search_notifies: the requester is not told what to expect.
search_is_silent(all, req, resource, n, s) == all

\* Market::search, its last call: requester.expect_n_results(resource, n).
search_notifies(all, req, resource, n, s) == expect_n_results(all, req, resource, n, s)

Market_search(s, instant, location, resource, req) ==
    /\ ~searches[s].handled
    /\ \A t \in SearchIDs : t < s => searches[t].handled
    /\ LET found == get(offers_by_resource, resource)
           offers == IF IsSome(found) THEN Unwrap(found) ELSE <<>>
       IN  /\ offerInbox' = SendEvaluates(offerInbox, offers, 1,
                  [type |-> "evaluate", instant |-> instant, location |-> location,
                   requester |-> req, search |-> s, idx |-> 0])
           /\ requester' = search_notifies(requester, req, resource,
                  n_to_expect(offers_by_resource, resource), s)
           /\ searches' = [searches EXCEPT ![s] =
                  [handled |-> TRUE, resource |-> resource, requester |-> req,
                   targets |-> offers,
                   withdrawn |-> {o \in OfferIDs : WithdrawProcessed(o)},
                   n |-> n_to_expect(offers_by_resource, resource)]]
    /\ UNCHANGED << offer, withdrawCalls, lastUse, offers_by_resource, marketInbox >>
    /\ UNCHANGED estimatorVars
    /\ UNCHANGED callerVars

Market_register ==
    /\ marketInbox # <<>>
    /\ Head(marketInbox).type = "register"
    /\ offers_by_resource' =
           push_at(offers_by_resource, Head(marketInbox).resource, Head(marketInbox).offer)
    /\ marketInbox' = Tail(marketInbox)
    /\ UNCHANGED << offerVars, searches, estimatorVars, requesterVars >>
    /\ UNCHANGED callerVars

\* Faulty variant of withdrawal_confirmation: confirmed only inside the
\* `if let`, that is when the resource has a list.
withdrawal_confirmation_if_listed(dict, resource, id) ==
    IF IsSome(get(dict, resource)) THEN << [type |-> "withdrawal_confirmed"] >> ELSE <<>>

\* Market::withdraw, its last call: offer.withdrawal_confirmed(), after and
\* outside of the `if let`.
withdrawal_confirmation(dict, resource, id) == << [type |-> "withdrawal_confirmed"] >>

Market_withdraw ==
    /\ marketInbox # <<>>
    /\ Head(marketInbox).type = "withdraw"
    /\ LET msg == Head(marketInbox)
       IN  /\ offers_by_resource' =
                  IF IsSome(get(offers_by_resource, msg.resource))
                  THEN [offers_by_resource EXCEPT ![msg.resource] =
                            retain_others(@, msg.offer)]
                  ELSE offers_by_resource
           /\ offerInbox' = [offerInbox EXCEPT ![msg.offer] =
                  @ \o withdrawal_confirmation(offers_by_resource, msg.resource,
                                               msg.offer)]
    /\ marketInbox' = Tail(marketInbox)
    /\ UNCHANGED << offer, withdrawCalls, lastUse, searches, estimatorVars, requesterVars >>
    /\ UNCHANGED callerVars

\* ------------------------------------------------------ TripCostEstimator
ASSUMED_AVG_SPEED == 10

\* TripCostEstimator::spawn: asks for both locations, then starts empty.
TripCostEstimator_spawn(e) ==
    /\ e \in DOMAIN estimator
    /\ estimator[e].fate = "spawning"
    /\ estimatorInbox[e] # <<>>
    /\ Head(estimatorInbox[e]).type = "spawn"
    /\ LET msg == Head(estimatorInbox[e])
       IN  /\ resolving' = [resolving EXCEPT ![e] =
                  << msg.rough_source, msg.rough_destination >>]
           /\ estimator' = [estimator EXCEPT ![e] =
                  [fate |-> "alive", id |-> e, requester |-> msg.requester,
                   rough_source |-> msg.rough_source,
                   rough_destination |-> msg.rough_destination,
                   base_result |-> msg.base_result, source |-> None,
                   n_resolved |-> 0, destination |-> None,
                   search |-> msg.search]]
    /\ estimatorInbox' = [estimatorInbox EXCEPT ![e] = Tail(@)]
    /\ UNCHANGED << offerVars, marketVars, pathfinding, history, requesterVars >>
    /\ UNCHANGED callerVars

\* The offer of the estimator's base result has died.
Orphan(self) ==
    \E k \in DOMAIN self.base_result.evaluated_deals :
        offer[self.base_result.evaluated_deals[k].offer].fate = "dead"

\* Faulty variant of SlotOf: what is not the source is taken for the
\* destination.
SlotOf_lenient(self, rough_location) ==
    IF self.rough_source = rough_location THEN "source" ELSE "destination"

\* Faulty variant of SlotOf: the destination is compared first.
SlotOf_destination_first(self, rough_location) ==
    IF self.rough_destination = rough_location THEN "destination"
    ELSE IF self.rough_source = rough_location THEN "source"
    ELSE "panic"

\* location_resolved, the slot the reply is stored into ("panic" for neither).
SlotOf(self, rough_location) ==
    IF self.rough_source = rough_location THEN "source"
    ELSE IF self.rough_destination = rough_location THEN "destination"
    ELSE "panic"

\* Faulty variant of Resolved: n_resolved is not incremented.
Resolved_uncounted(self, rough_location, location) ==
    IF SlotOf(self, rough_location) = "source"
    THEN [self EXCEPT !.source = location]
    ELSE [self EXCEPT !.destination = location]

\* location_resolved up to the increment of n_resolved (a u8).
Resolved(self, rough_location, location) ==
    LET stored == IF SlotOf(self, rough_location) = "source"
                  THEN [self EXCEPT !.source = location]
                  ELSE [self EXCEPT !.destination = location]
    IN  [stored EXCEPT !.n_resolved = (@ + 1) % 256]

\* Faulty variant of AfterResolved: `if` for `else if`, both branches may be taken.
AfterResolved_both(self) ==
    (IF IsSome(self.source) /\ IsSome(self.destination) THEN {"get_distance_to"} ELSE {})
    \cup (IF self.n_resolved = 2 THEN {"on_result", "done"} ELSE {})

\* Faulty variant of AfterResolved: one resolved endpoint is enough to ask the distance.
AfterResolved_either(self) ==
    IF IsSome(self.source) \/ IsSome(self.destination) THEN {"get_distance_to"}
    ELSE IF self.n_resolved = 2 THEN {"on_result", "done"}
    ELSE {}

\* location_resolved, what follows the increment: the calls made.
AfterResolved(self) ==
    IF IsSome(self.source) /\ IsSome(self.destination) THEN {"get_distance_to"}
    ELSE IF self.n_resolved = 2 THEN {"on_result", "done"}
    ELSE {}

\* TripCostEstimator::location_resolved.  The message answers the i-th of the
\* requests still unanswered, or none of them (i = 0).  When rough_location is
\* neither endpoint the handler panics before it stores or sends anything.
TripCostEstimator_location_resolved(e, i, rough_location, location) ==
    /\ e \in DOMAIN estimator
    /\ estimator[e].fate = "alive"
    /\ i \in DOMAIN resolving[e] \cup {0}
    /\ i \in DOMAIN resolving[e] => rough_location = resolving[e][i]
    /\ location \in LocationOptions(rough_location)
    /\ LET message == [type |-> "location_resolved",
                       rough_location |-> rough_location, location |-> location]
           self == Resolved(estimator[e], rough_location, location)
           calls == AfterResolved(self)
           request == IF "get_distance_to" \in calls
                      THEN << << self.source, self.destination >> >> ELSE <<>>
           result == EmptyResult(self.base_result.resource)
       IN  /\ resolving' = [resolving EXCEPT ![e] = IF i = 0 THEN @ ELSE RemoveAt(@, i)]
           /\ IF SlotOf(estimator[e], rough_location) = "panic"
              THEN /\ estimator' = [estimator EXCEPT ![e].fate = "panicked"]
                   /\ history' = [history EXCEPT ![e].handled = Append(@, message)]
                   /\ UNCHANGED << pathfinding, requester, estimatorInbox >>
              ELSE /\ estimator' = [estimator EXCEPT ![e] = self]
                   /\ pathfinding' = [pathfinding EXCEPT ![e] = @ \o request]
                   /\ requester' =
                          IF "on_result" \in calls
                          THEN on_result(requester, self.requester, result, self.search)
                          ELSE requester
                   /\ estimatorInbox' = [estimatorInbox EXCEPT ![e] =
                          IF "done" \in calls THEN Append(@, [type |-> "done"]) ELSE @]
                   /\ history' = [history EXCEPT
                          ![e].handled = Append(@, message),
                          ![e].requests = @ \o request,
                          ![e].replies =
                              IF "on_result" \in calls THEN Append(@, result) ELSE @,
                          ![e].n_replies = IF "on_result" \in calls THEN @ + 1 ELSE @,
                          ![e].orphan =
                              IF "on_result" \in calls THEN Orphan(self) ELSE @]
    /\ UNCHANGED << offerVars, marketVars >>
    /\ UNCHANGED callerVars

\* Duration((distance / ASSUMED_AVG_SPEED) as usize)
estimated_travel_time(distance) == distance \div ASSUMED_AVG_SPEED

\* Faulty variant of TravelAdjusted: the end of the window is not moved.
TravelAdjusted_to_kept(evaluated_deal, distance) ==
    [evaluated_deal EXCEPT
        !.deal.duration = @ + estimated_travel_time(distance),
        !.from = TimeOfDay_sub(@, estimated_travel_time(distance))]

\* Faulty variant of TravelAdjusted: the travel time is taken from the amounts
\* given as well.
TravelAdjusted_delta(evaluated_deal, distance) ==
    [evaluated_deal EXCEPT
        !.deal.duration = @ + estimated_travel_time(distance),
        !.deal.delta = [k \in DOMAIN @ |->
                           << @[k][1], @[k][2] - estimated_travel_time(distance) >>],
        !.from = TimeOfDay_sub(@, estimated_travel_time(distance)),
        !.to = TimeOfDay_sub(@, estimated_travel_time(distance))]

\* on_distance, the closure applied to every evaluated deal.
TravelAdjusted(evaluated_deal, distance) ==
    [evaluated_deal EXCEPT
        !.deal.duration = @ + estimated_travel_time(distance),
        !.from = TimeOfDay_sub(@, estimated_travel_time(distance)),
        !.to = TimeOfDay_sub(@, estimated_travel_time(distance))]

\* Faulty variant of DistanceResult: the deals are those of the offer as it is
\* now, none once the offer has died.
DistanceResult_of_living(self, maybe_distance) ==
    IF /\ IsSome(maybe_distance)
       /\ \A k \in DOMAIN self.base_result.evaluated_deals :
              offer[self.base_result.evaluated_deals[k].offer].fate = "alive"
    THEN [self.base_result EXCEPT !.evaluated_deals =
              [k \in DOMAIN @ |-> TravelAdjusted(@[k], Unwrap(maybe_distance))]]
    ELSE EmptyResult(self.base_result.resource)

\* on_distance, the result sent to the requester.
DistanceResult(self, maybe_distance) ==
    IF IsSome(maybe_distance)
    THEN [self.base_result EXCEPT !.evaluated_deals =
              [k \in DOMAIN @ |-> TravelAdjusted(@[k], Unwrap(maybe_distance))]]
    ELSE EmptyResult(self.base_result.resource)

TripCostEstimator_on_distance(e, maybe_distance) ==
    /\ e \in DOMAIN estimator
    /\ estimator[e].fate = "alive"
    /\ pathfinding[e] # <<>>
    /\ LET self == estimator[e]
           result == DistanceResult(self, maybe_distance)
       IN  /\ requester' = on_result(requester, self.requester, result, self.search)
           /\ history' = [history EXCEPT
                  ![e].handled = Append(@, [type |-> "on_distance",
                                            maybe_distance |-> maybe_distance]),
                  ![e].replies = Append(@, result),
                  ![e].n_replies = @ + 1,
                  ![e].orphan = Orphan(self)]
    /\ pathfinding' = [pathfinding EXCEPT ![e] = Tail(@)]
    /\ estimatorInbox' = [estimatorInbox EXCEPT ![e] = Append(@, [type |-> "done"])]
    /\ UNCHANGED << offerVars, marketVars, estimator, resolving >>
    /\ UNCHANGED callerVars

\* TripCostEstimator::done: Fate::Die; the actor's state is gone.
TripCostEstimator_done(e) ==
    /\ e \in DOMAIN estimator
    /\ estimator[e].fate = "alive"
    /\ estimatorInbox[e] # <<>>
    /\ Head(estimatorInbox[e]).type = "done"
    /\ estimator' = [estimator EXCEPT ![e] = [fate |-> "dead"]]
    /\ estimatorInbox' = [estimatorInbox EXCEPT ![e] = Tail(@)]
    /\ history' = [history EXCEPT ![e].handled = <<>>, ![e].requests = <<>>,
                                  ![e].replies = <<>>, ![e].orphan = FALSE]
    /\ UNCHANGED << offerVars, marketVars, resolving, pathfinding, requesterVars >>
    /\ UNCHANGED callerVars

\* ------------------------------------------------------------------ specs
\* Offers `ids` come and go, at one of `locations`.
Offers(ids, locations) ==
    \/ \E id \in ids, h \in Offerers, m \in MemberIdxs, l \in locations,
          w \in Windows, deal \in Deals :
          Offer_register(id, h, m, l, w[1], w[2], deal)
    \/ \E id \in ids, h \in Offerers, m \in MemberIdxs, l \in locations,
          w \in Windows, deal \in Deals :
          Offer_private(id, h, m, l, w[1], w[2], deal)
    \/ \E id \in ids : Offer_withdraw(id)
    \/ \E id \in ids : Offer_withdrawal_confirmed(id)
    \/ Market_register
    \/ Market_withdraw

\* Searches at `instants`, from `locations`, for `resources`.
Searches(instants, locations, resources) ==
    \/ \E s \in SearchIDs, i \in instants, l \in locations, r \in resources,
          q \in RequesterIDs : Market_search(s, i, l, r, q)
    \/ \E id \in OfferIDs : Offer_evaluate(id)

\* Estimations; a location may fail to resolve when `unresolvable`, and a
\* distance request is answered with one of `distances`.
Estimations(unresolvable, distances) ==
    \/ \E e \in DOMAIN estimator : TripCostEstimator_spawn(e)
    \/ \E e \in DOMAIN estimator, i \in 1 .. 2, failed \in unresolvable :
          /\ i \in DOMAIN resolving[e]
          /\ TripCostEstimator_location_resolved(e, i, resolving[e][i],
                 IF failed THEN None ELSE Some(LocationOf(resolving[e][i])))
    \/ \E e \in DOMAIN estimator, d \in distances :
          TripCostEstimator_on_distance(e, d)
    \/ \E e \in DOMAIN estimator : TripCostEstimator_done(e)

\* A location_resolved message that answers no request of the estimator and
\* names one of `rough_locations`, none of its endpoints.
Strays(rough_locations) ==
    \E e \in DOMAIN estimator, r \in rough_locations, failed \in {FALSE, TRUE} :
        /\ estimator[e].fate = "alive"
        /\ r \notin {estimator[e].rough_source, estimator[e].rough_destination}
        /\ TripCostEstimator_location_resolved(e, 0, r,
               IF failed THEN None ELSE Some(LocationOf(r)))

\* Calls of started_using and stopped_using.
MemberOptions == {None} \cup {Some(m) : m \in MemberIdxs}

\* The members that trade.
TradingMembers == {0, 1}

Using(ids) ==
    \/ \E id \in ids, h \in HouseholdIDs, m \in MemberOptions :
          Offer_started_using(id, h, m)
    \/ \E id \in ids, h \in HouseholdIDs, m \in MemberOptions :
          Offer_stopped_using(id, h, m)

\* The market: two offers come and go while food is searched from another
\* place; every location resolves and every distance is found.
Next ==
    \/ Offers(OfferIDs, {"l1"})
    \/ Searches({420, 1080}, {"l2"}, {"food"})
    \/ Estimations({FALSE}, {Some(1000)})

Spec == Init /\ [][Next]_vars

\* The estimation: one offer, searched from anywhere at any instant;
\* locations may not resolve and distances may not be found.
NextTrip ==
    \/ Offers({"o1"}, RoughLocationIDs)
    \/ Searches(Instants, RoughLocationIDs, ResourceIds)
    \/ Estimations({FALSE, TRUE}, DistanceOptions)

SpecTrip == Init /\ [][NextTrip]_vars

\* The users of one offer.
NextUsing ==
    \/ Offers({"o1"}, {"l1"})
    \/ Using({"o1"})

SpecUsing == Init /\ [][NextUsing]_vars

\* Calls of request_receive_deal and request_receive_undo_deal.
Trading(ids) ==
    \/ \E id \in ids, h \in HouseholdIDs, m \in TradingMembers :
          Offer_request_receive_deal(id, h, m)
    \/ \E id \in ids, h \in HouseholdIDs, m \in TradingMembers :
          Offer_request_receive_undo_deal(id, h, m)

\* The trades: one offer is traded on and off while it is searched, evaluated
\* and withdrawn.
NextTrade ==
    \/ Offers({"o1"}, {"l1"})
    \/ Searches({420}, {"l2"}, {"food"})
    \/ Estimations({FALSE}, {Some(1000)})
    \/ Trading({"o1"})

SpecTrade == Init /\ [][NextTrade]_vars

\* The stray replies: the estimations of one offer, searched from its own
\* place or from another, receive location replies they did not ask for.
StrayLocationIDs == {"l2", "l3"}

NextStray ==
    \/ Offers({"o1"}, {"l1"})
    \/ Searches({420}, RoughLocationIDs, {"food"})
    \/ Estimations({FALSE, TRUE}, {Some(1000)})
    \/ Strays(StrayLocationIDs)

SpecStray == Init /\ [][NextStray]_vars

\* The deals: any Deal is constructed and asked for its main given resource.
NextDeal ==
    \/ \E delta \in Deltas, duration \in Durations : Deal_new(delta, duration)
    \/ Deal_main_given

SpecDeal == Init /\ [][NextDeal]_vars

\* Every message in an inbox of a living actor is handled in the end, and the
\* pathfinding subsystem answers every request: the steps other than the
\* calls of the module's callers.
Handling(unresolvable, distances) ==
    \/ Market_register
    \/ Market_withdraw
    \/ \E id \in OfferIDs : Offer_withdrawal_confirmed(id)
    \/ \E id \in OfferIDs : Offer_evaluate(id)
    \/ Estimations(unresolvable, distances)

\* Nothing is left to handle: no living actor has a message it can handle
\* and no request to the pathfinding subsystem is unanswered.
Settled == ~ENABLED Handling({FALSE}, {None})

\* ----------------------------------------------------------- observations
\* The evaluate messages of search s that a living offer has yet to handle.
EvaluatesToHandle(s) ==
    SumOver([o \in OfferIDs |->
                IF offer[o].fate = "alive"
                THEN Len(SelectSeq(offerInbox[o], LAMBDA m : m.type = "evaluate" /\ m.search = s))
                ELSE 0], OfferIDs)

\* The estimators of search s that have yet to reply.
EstimatorsToReply(s) ==
    Cardinality({e \in DOMAIN estimator : e[1] = s /\ history[e].n_replies = 0})

\* The offers indexed by the Market, under any resource.
Indexed ==
    {o \in OfferIDs : \E r \in DOMAIN offers_by_resource :
        \E k \in DOMAIN offers_by_resource[r] : offers_by_resource[r][k] = o}

\* ----------------------------------------------------------------- claims
\* C1: the count n that Market.search passes to expect_n_results equals the
\* number of on_result messages the requester receives for that search: at
\* every moment the results received plus the evaluations still under way
\* make n, and once nothing is left to handle n results have been received.
C1_ExpectedResultsArrive ==
    \A s \in SearchIDs :
        searches[s].handled =>
            LET q == searches[s].requester IN
            /\ requester[q].expected[s] = Some(searches[s].n)
            /\ requester[q].received[s] + EvaluatesToHandle(s) + EstimatorsToReply(s)
                   = searches[s].n
            /\ Settled => requester[q].received[s] = searches[s].n

\* C1 witness: a search that expected two results has received both, one of
\* them the empty reply of an expired offer, while an offer was withdrawn.
C1_Witness ==
    \E s \in SearchIDs :
        /\ searches[s].handled
        /\ Settled
        /\ requester[searches[s].requester].received[s] = 2
        /\ searches[s].n = 2
        /\ requester[searches[s].requester].empty[s] = 2
        /\ \E o \in OfferIDs : offer[o].fate = "dead"



\* The location_resolved messages estimator e has handled, and the absent ones.
LocationsHandled(e) ==
    SelectSeq(history[e].handled, LAMBDA m : m.type = "location_resolved")

AbsentHandled(e) ==
    SelectSeq(LocationsHandled(e), LAMBDA m : m.location = None)

DistancesHandled(e) ==
    SelectSeq(history[e].handled, LAMBDA m : m.type = "on_distance")

Alive(e) == e \in DOMAIN estimator /\ estimator[e].fate = "alive"

\* C2: every TripCostEstimator sends exactly one on_result to its requester
\* and then terminates: never two replies, a done message to itself after the
\* reply, and once nothing is left to handle it has replied and is dead.
C2_ExactlyOneReply ==
    \A e \in DOMAIN estimator :
        /\ history[e].n_replies <= 1
        /\ estimator[e].fate = "dead" => history[e].n_replies = 1
        /\ (Alive(e) /\ history[e].n_replies = 1) =>
               estimatorInbox[e] = << [type |-> "done"] >>
        /\ (Alive(e) /\ history[e].n_replies = 0) =>
               estimatorInbox[e] = <<>>
        /\ Settled => estimator[e].fate = "dead"

\* C2 witness: an estimator that heard of its destination first, then of its
\* source, then that no distance is known, has replied once and is to die.
C2_Witness ==
    \E e \in DOMAIN estimator :
        /\ Alive(e)
        /\ Len(history[e].handled) = 3
        /\ estimator[e].rough_source # estimator[e].rough_destination
        /\ history[e].handled[1].rough_location = estimator[e].rough_destination
        /\ history[e].handled[3].maybe_distance = None
        /\ history[e].n_replies = 1
        /\ estimatorInbox[e] = << [type |-> "done"] >>

\* C3: once the Market has handled the register of an offer whose main given
\* resource is R, a search for R sends evaluate to the offer; once the Market
\* has handled the offer's withdraw, no search sends evaluate to it, the
\* confirmation is on its way to the offer, and the confirmed offer is dead.
C3_SearchStep(s) == ~searches[s].handled /\ searches'[s].handled

C3_Discoverable(o, s) ==
    /\ RegisterProcessed(o)
    /\ ~WithdrawProcessed(o)
    /\ main_given(offer[o].deal) = Some(searches'[s].resource)

C3_Withdrawn(o) ==
    WithdrawProcessed(o) =>
        \/ offer[o].fate = "dead"
        \/ /\ offer[o].fate = "alive"
           /\ Len(SelectSeq(offerInbox[o], LAMBDA m : m.type = "withdrawal_confirmed")) > 0

C3_RegisteredUntilWithdrawn ==
    /\ [][\A s \in SearchIDs : C3_SearchStep(s) =>
            \A o \in OfferIDs :
                /\ C3_Discoverable(o, s) =>
                       /\ Len(offerInbox'[o]) = Len(offerInbox[o]) + 1
                       /\ Last(offerInbox'[o]).type = "evaluate"
                       /\ Last(offerInbox'[o]).search = s
                /\ WithdrawProcessed(o) => offerInbox'[o] = offerInbox[o]]_vars
    /\ [](\A o \in OfferIDs : C3_Withdrawn(o) /\ (Settled /\ WithdrawProcessed(o)
                                                   => offer[o].fate = "dead"))

\* C3 witness: a search for food has found one registered offer and not the
\* other, registered for food as well and withdrawn before; that one is dead.
C3_Witness ==
    \E s \in SearchIDs : \E o \in OfferIDs :
        /\ searches[s].handled
        /\ Len(searches[s].targets) = 1
        /\ o \in searches[s].withdrawn
        /\ offer[o].registered
        /\ main_given(offer[o].deal) = Some(searches[s].resource)
        /\ offer[o].fate = "dead"

\* C4: an offer dies only on handling withdrawal_confirmed, which is sent once
\* the Market no longer indexes the offer; no evaluate message waits for a dead
\* offer, and a living offer handles the evaluate at the head of its inbox,
\* withdrawn or not.
C4_Confirmed(o) ==
    \/ offer[o].fate = "dead"
    \/ Len(SelectSeq(offerInbox[o], LAMBDA m : m.type = "withdrawal_confirmed")) > 0

C4_State(o) ==
    /\ C4_Confirmed(o) => o \notin Indexed
    /\ offer[o].fate = "dead" =>
           Len(SelectSeq(offerInbox[o], LAMBDA m : m.type = "evaluate")) = 0
    /\ (offer[o].fate = "alive" /\ offerInbox[o] # <<>>
            /\ Head(offerInbox[o]).type = "evaluate") => ENABLED Offer_evaluate(o)

C4_NoEvaluateForTheDead ==
    /\ [](\A o \in OfferIDs : C4_State(o))
    /\ [][\A o \in OfferIDs :
            (offer[o].fate # "dead" /\ offer'[o].fate = "dead") =>
                /\ offerInbox[o] # <<>>
                /\ Head(offerInbox[o]).type = "withdrawal_confirmed"
                /\ offerInbox'[o] = Tail(offerInbox[o])]_vars

\* C4 witness: an offer that has handled withdraw is alive with an evaluate
\* to handle, followed in its inbox by the confirmation of the withdrawal.
C4_Witness ==
    \E o \in OfferIDs :
        /\ offer[o].fate = "alive"
        /\ withdrawCalls[o] > 0
        /\ Len(offerInbox[o]) = 2
        /\ offerInbox[o][1].type = "evaluate"
        /\ offerInbox[o][2].type = "withdrawal_confirmed"

\* C5: the requester receives expect_n_results of a search before any
\* on_result of that search, the empty replies of expired offers included.
C5_ExpectedBeforeResults ==
    \A q \in RequesterIDs : \A s \in SearchIDs :
        /\ requester[q].early[s] = 0
        /\ requester[q].received[s] > 0 => IsSome(requester[q].expected[s])

\* C5 witness: the empty reply of an expired offer has been received.
C5_Witness ==
    \E q \in RequesterIDs : \E s \in SearchIDs :
        /\ requester[q].empty[s] > 0
        /\ IsSome(requester[q].expected[s])


\* C6: when on_distance delivers a distance D, every evaluated deal of the
\* reply has the base deal's duration plus D / ASSUMED_AVG_SPEED (in whole
\* units), and its from and to are the base bounds minus that travel time.
C6_Adjusted(e) ==
    LET D == Unwrap(Last(history[e].handled).maybe_distance)
        t == D \div ASSUMED_AVG_SPEED
        base == estimator[e].base_result
        reply == history[e].replies[1]
    IN  /\ Len(history[e].replies) = 1
        /\ reply.resource = base.resource
        /\ Len(reply.evaluated_deals) = Len(base.evaluated_deals)
        /\ Len(reply.evaluated_deals) > 0
        /\ \A k \in DOMAIN reply.evaluated_deals :
               /\ reply.evaluated_deals[k].deal.duration
                      = base.evaluated_deals[k].deal.duration + t
               /\ reply.evaluated_deals[k].from = base.evaluated_deals[k].from - t
               /\ reply.evaluated_deals[k].to = base.evaluated_deals[k].to - t

C7_EvaluateStep(o) ==
    /\ offer[o].fate = "alive"
    /\ offerInbox[o] # <<>>
    /\ Head(offerInbox[o]).type = "evaluate"
    /\ offerInbox'[o] = Tail(offerInbox[o])

C7_Spawned(o) ==
    LET msg == Head(offerInbox[o])
        e == << msg.search, msg.idx >>
    IN  /\ e \notin DOMAIN estimator
        /\ DOMAIN estimator' = DOMAIN estimator \cup {e}
        /\ \A f \in DOMAIN estimator : estimatorInbox'[f] = estimatorInbox[f]
        /\ Len(estimatorInbox'[e]) = 1
        /\ estimatorInbox'[e][1].type = "spawn"
        /\ estimatorInbox'[e][1].requester = msg.requester
        /\ requester' = requester

C7_Answered(o) ==
    LET msg == Head(offerInbox[o])
        s == msg.search
        q == msg.requester
    IN  /\ estimator' = estimator
        /\ estimatorInbox' = estimatorInbox
        /\ requester'[q].received[s] = requester[q].received[s] + 1
        /\ requester'[q].empty[s] = requester[q].empty[s] + 1
        /\ requester'[q].resources[s] =
               requester[q].resources[s] \cup {Unwrap(main_given(offer[o].deal))}
        /\ \A t \in SearchIDs \ {s} :
               requester'[q].received[t] = requester[q].received[t]

C7_ValidUntilTo ==
    [][\A o \in OfferIDs : C7_EvaluateStep(o) =>
          IF TimeOfDay_from_instant(Head(offerInbox[o]).instant) < offer[o].to
          THEN C7_Spawned(o)
          ELSE C7_Answered(o)]_vars

\* C7 witness: an estimator is being spawned for an instant before `from`.
C7_Witness ==
    \E e \in DOMAIN estimator :
        /\ estimator[e].fate = "spawning"
        /\ TimeOfDay_from_instant(Head(estimatorInbox[e]).instant)
               < Head(estimatorInbox[e]).base_result.evaluated_deals[1].from

\* C8: if a location_resolved reply is absent, the estimator asks no distance,
\* and on the second reply it sends a result without deals for the resource of
\* the base result and a done message to itself.
C8_AbsentShortCircuits ==
    \A e \in DOMAIN estimator :
        (Alive(e) /\ AbsentHandled(e) # <<>>) =>
            /\ history[e].requests = <<>>
            /\ pathfinding[e] = <<>>
            /\ Len(LocationsHandled(e)) = 2 =>
                   /\ history[e].replies =
                          << EmptyResult(estimator[e].base_result.resource) >>
                   /\ estimatorInbox[e] = << [type |-> "done"] >>

\* C8 witness: the destination resolved first, the source then did not, and
\* the empty result has been sent.
C8_Witness ==
    \E e \in DOMAIN estimator :
        /\ Alive(e)
        /\ Len(history[e].handled) = 2
        /\ history[e].handled[1].location # None
        /\ history[e].handled[1].rough_location = estimator[e].rough_destination
        /\ history[e].handled[2].location = None
        /\ history[e].replies # <<>>

\* C9: an estimator sends the empty result after the second location reply
\* only when one of the two replies was absent; when both replies carry a
\* location it asks for the distance between them.
C9_ShortCircuitOnlyWhenAbsent ==
    \A e \in DOMAIN estimator :
        Alive(e) =>
            /\ (history[e].replies # <<>> /\ DistancesHandled(e) = <<>>) =>
                   AbsentHandled(e) # <<>>
            /\ (Len(LocationsHandled(e)) = 2 /\ AbsentHandled(e) = <<>>) =>
                   history[e].requests =
                       << << estimator[e].source, estimator[e].destination >> >>


\* C10 as claimed: started_using(p) followed by stopped_using(p) leaves the
\* users of the offer as they were before the two calls, whatever they were.
C10_RoundTripAlways ==
    \A o \in OfferIDs :
        lastUse[o].call = "round_trip" => offer[o].users = lastUse[o].before

\* The entries of users equal to pair.
C10_Uses(users, pair) == Len(SelectSeq(users, LAMBDA entry : entry = pair))

\* C10 as amended: started_using(p) followed by stopped_using(p) leaves the
\* users of the offer as they were before the two calls when p was not among
\* them; when it was, every entry equal to p is gone and the others remain.
C10_RoundTripOfNewUser ==
    \A o \in OfferIDs :
        lastUse[o].call = "round_trip" =>
            /\ C10_Uses(lastUse[o].before, lastUse[o].pair) = 0 =>
                   offer[o].users = lastUse[o].before
            /\ offer[o].users =
                   SelectSeq(lastUse[o].before, LAMBDA entry : entry # lastUse[o].pair)

\* C10 witness: a pair has started and stopped using an offer another pair of
\* the same household uses.
C10_Witness ==
    \E o \in OfferIDs :
        /\ lastUse[o].call = "round_trip"
        /\ Len(lastUse[o].before) = 1
        /\ lastUse[o].before[1] # lastUse[o].pair
        /\ lastUse[o].before[1][1] = lastUse[o].pair[1]
        /\ offer[o].users = lastUse[o].before

\* C11: main_given returns the first resource, in the insertion order of
\* delta, whose amount is strictly positive, and panics exactly when delta has
\* no entry of strictly positive amount; a resource of zero or negative
\* amount is never returned.
C11_FirstPositiveOrPanic ==
    lastDeal.state \in {"returned", "panicked"} =>
        LET delta == lastDeal.deal.delta
            positive == {k \in DOMAIN delta : delta[k][2] > 0}
        IN  /\ lastDeal.state = "panicked" <=> positive = {}
            /\ lastDeal.state = "returned" =>
                   \E k \in positive :
                       /\ lastDeal.result = Some(delta[k][1])
                       /\ \A j \in positive : k <= j

\* C11 witness: the resource returned is the third entry, after an entry of
\* zero amount and an entry of negative amount.
C11_Witness ==
    /\ lastDeal.state = "returned"
    /\ Len(lastDeal.deal.delta) = 3
    /\ lastDeal.deal.delta[1][2] = 0
    /\ lastDeal.deal.delta[2][2] < 0
    /\ lastDeal.result = Some(lastDeal.deal.delta[3][1])

\* C11 witness of the panic: main_given was called on a Deal with entries,
\* none of them positive.
C11_PanicWitness ==
    /\ lastDeal.state = "panicked"
    /\ Len(lastDeal.deal.delta) = 2

\* C12: every Market.withdraw(resource, offer) sends exactly one
\* withdrawal_confirmed to the offer and nothing to any other, whether the
\* offer is in the resource's list, not in it, or the resource has no list;
\* a living offer handles the confirmation whatever its state and dies of it,
\* so that an offer that has handled withdraw is dead once nothing is left to
\* handle.
C12_WithdrawStep ==
    /\ marketInbox # <<>>
    /\ Head(marketInbox).type = "withdraw"
    /\ marketInbox' = Tail(marketInbox)

C12_ConfirmedStep(o) ==
    /\ offer[o].fate = "alive"
    /\ offerInbox[o] # <<>>
    /\ Head(offerInbox[o]).type = "withdrawal_confirmed"
    /\ offerInbox'[o] = Tail(offerInbox[o])

C12_Confirmations(o) ==
    Len(SelectSeq(offerInbox[o], LAMBDA m : m.type = "withdrawal_confirmed"))

C12_State(o) ==
    /\ C12_Confirmations(o) + (IF offer[o].fate = "dead" THEN 1 ELSE 0)
           = withdrawCalls[o]
               - Len(SelectSeq(marketInbox,
                               LAMBDA m : m.type = "withdraw" /\ m.offer = o))
    /\ (offer[o].fate = "alive" /\ offerInbox[o] # <<>>
            /\ Head(offerInbox[o]).type = "withdrawal_confirmed")
           => ENABLED Offer_withdrawal_confirmed(o)
    /\ (Settled /\ withdrawCalls[o] > 0) => offer[o].fate = "dead"

C12_WithdrawnOfferTerminates ==
    /\ [](\A o \in OfferIDs : C12_State(o))
    /\ [][\A o \in OfferIDs :
              /\ C12_WithdrawStep =>
                     offerInbox'[o] =
                         IF o = Head(marketInbox).offer
                         THEN Append(offerInbox[o], [type |-> "withdrawal_confirmed"])
                         ELSE offerInbox[o]
              /\ C12_ConfirmedStep(o) => offer'[o].fate = "dead"]_vars

\* C12 witness: a private offer is dead of its withdrawal, which found the
\* list of its resource without the offer in it.
C12_Witness ==
    \E o \in OfferIDs :
        /\ offer[o].fate = "dead"
        /\ ~offer[o].registered
        /\ Unwrap(main_given(offer[o].deal)) \in DOMAIN offers_by_resource
        /\ offers_by_resource[Unwrap(main_given(offer[o].deal))] # <<>>

\* C12 witness of the other case: a private offer is dead of its withdrawal
\* while the Market has no list at all.
C12_UnlistedWitness ==
    \E o \in OfferIDs :
        /\ offer[o].fate = "dead"
        /\ ~offer[o].registered
        /\ offers_by_resource = <<>>

\* C13: an offer created with Offer.private is never in the Market's index,
\* no register message is under way for it, no search sends evaluate to it
\* or counts it in the number of results to expect, and no estimator is
\* spawned for it, before and after it is withdrawn.
C13_Private(o) == offer[o].fate # "unspawned" /\ ~offer[o].registered

C13_PrivateNeverFound ==
    \A o \in OfferIDs :
        C13_Private(o) =>
            /\ o \notin Indexed
            /\ \A k \in DOMAIN marketInbox :
                   marketInbox[k].offer = o => marketInbox[k].type = "withdraw"
            /\ \A k \in DOMAIN offerInbox[o] : offerInbox[o][k].type # "evaluate"
            /\ \A e \in DOMAIN estimator : \A k \in DOMAIN estimatorInbox[e] :
                   estimatorInbox[e][k].type = "spawn" =>
                       estimatorInbox[e][k].base_result.evaluated_deals[1].offer # o
            /\ \A s \in SearchIDs :
                   searches[s].handled =>
                       /\ \A k \in DOMAIN searches[s].targets : searches[s].targets[k] # o
                       /\ searches[s].n = Len(searches[s].targets)
                       /\ requester[searches[s].requester].expected[s]
                              = Some(Len(searches[s].targets))

\* C13 witness: a search for food has found the registered offer of food and
\* not the private one, which has been withdrawn since.
C13_Witness ==
    \E o \in OfferIDs : \E s \in SearchIDs :
        /\ C13_Private(o)
        /\ withdrawCalls[o] > 0
        /\ searches[s].handled
        /\ main_given(offer[o].deal) = Some(searches[s].resource)
        /\ searches[s].n = 1
        /\ o \notin searches[s].withdrawn

\* The legs of `type` household h has received for its member m and `deal`.
LegsOf(h, type, deal, m) ==
    Len(SelectSeq(legs[h],
                  LAMBDA leg : leg.type = type /\ leg.deal = deal /\ leg.member = m))

\* The calls `call` of offer o made for member m of household h.
CallsOf(o, call, h, m) ==
    Len(SelectSeq(trades[o],
                  LAMBDA c : c.call = call /\ c.household = h /\ c.member = m))

\* C14: request_receive_deal sends provide_deal(deal, offering_member) to the
\* offerer and receive_deal(deal, member) to the household; the undo sends
\* receive_deal(deal, offering_member) to the offerer and provide_deal(deal,
\* member) to the household, with the same Deal; when every commit has been
\* followed by its undo, every member of every household has received as
\* many provide legs as receive legs of the Deal.
C14_Step(o) == Len(trades'[o]) = Len(trades[o]) + 1

C14_Legs(o) ==
    LET c == Last(trades'[o])
        deal == offer[o].deal
        own == offer[o].offering_member
        commit == c.call = "request_receive_deal"
        first == [legs EXCEPT ![offer[o].offerer] =
                     Append(@, IF commit THEN provide_deal(deal, own)
                               ELSE receive_deal(deal, own))]
    IN  legs' = [first EXCEPT ![c.household] =
                    Append(@, IF commit THEN receive_deal(deal, c.member)
                              ELSE provide_deal(deal, c.member))]

C14_Undone(o) ==
    \A h \in HouseholdIDs : \A m \in TradingMembers :
        CallsOf(o, "request_receive_deal", h, m)
            = CallsOf(o, "request_receive_undo_deal", h, m)

C14_Balanced ==
    \A h \in HouseholdIDs : \A m \in TradingMembers : \A deal \in Deals :
        LegsOf(h, "provide_deal", deal, m) = LegsOf(h, "receive_deal", deal, m)

C14_UndoIsTheInverse ==
    /\ [][\A o \in OfferIDs : C14_Step(o) => C14_Legs(o)]_vars
    /\ []((\A o \in OfferIDs : C14_Undone(o)) => C14_Balanced)

\* C14 witness: member 1 of another household has received the deal and then
\* undone it; the offerer has provided and received it back, the household
\* has received and provided it back.
C14_Witness ==
    \E o \in OfferIDs : \E h \in HouseholdIDs :
        /\ offer[o].fate # "unspawned"
        /\ h # offer[o].offerer
        /\ trades[o] =
               << [call |-> "request_receive_deal", household |-> h, member |-> 1],
                  [call |-> "request_receive_undo_deal", household |-> h, member |-> 1] >>
        /\ legs[h] = << receive_deal(offer[o].deal, 1), provide_deal(offer[o].deal, 1) >>
        /\ legs[offer[o].offerer] =
               << provide_deal(offer[o].deal, 0), receive_deal(offer[o].deal, 0) >>

\* C15: an estimation runs to completion whatever becomes of its offer: the
\* estimator handles its spawn, location and distance messages with the offer
\* withdrawn, confirmed and dead, it has replied once and is dead when nothing
\* is left to handle, its reply to a distance carries the deal of its stored
\* base result, which no step changes, and no step of an estimator sends a
\* message to an offer or to the Market.
C15_Step(e) ==
    /\ estimator[e].fate # "dead"
    /\ \/ estimator'[e] # estimator[e]
       \/ estimatorInbox'[e] # estimatorInbox[e]
       \/ pathfinding'[e] # pathfinding[e]

C15_Runs(e) ==
    /\ estimator[e].fate = "spawning" => ENABLED TripCostEstimator_spawn(e)
    /\ (Alive(e) /\ resolving[e] # <<>>) =>
           ENABLED TripCostEstimator_location_resolved(e, 1, resolving[e][1], None)
    /\ (Alive(e) /\ pathfinding[e] # <<>>) =>
           ENABLED TripCostEstimator_on_distance(e, None)
    /\ (Alive(e) /\ history[e].n_replies = 1) => ENABLED TripCostEstimator_done(e)
    /\ Settled => (estimator[e].fate = "dead" /\ history[e].n_replies = 1)
    /\ (/\ Alive(e)
        /\ DistancesHandled(e) # <<>>
        /\ IsSome(Last(history[e].handled).maybe_distance)) =>
           /\ Len(history[e].replies[1].evaluated_deals) = 1
           /\ history[e].replies[1].evaluated_deals[1].offer
                  = estimator[e].base_result.evaluated_deals[1].offer

C16_MarketStep(type) ==
    /\ marketInbox # <<>>
    /\ Head(marketInbox).type = type
    /\ marketInbox' = Tail(marketInbox)

C16_List(dict, resource) == IF resource \in DOMAIN dict THEN dict[resource] ELSE <<>>

C16_OthersKept(resource) ==
    \A r \in ResourceIds \ {resource} :
        /\ r \in DOMAIN offers_by_resource' <=> r \in DOMAIN offers_by_resource
        /\ C16_List(offers_by_resource', r) = C16_List(offers_by_resource, r)

C16_Registered ==
    LET msg == Head(marketInbox)
    IN  /\ msg.resource \in DOMAIN offers_by_resource'
        /\ offers_by_resource'[msg.resource]
               = Append(C16_List(offers_by_resource, msg.resource), msg.offer)
        /\ C16_OthersKept(msg.resource)

C16_Withdrawn ==
    LET msg == Head(marketInbox)
        before == C16_List(offers_by_resource, msg.resource)
        after == C16_List(offers_by_resource', msg.resource)
    IN  /\ msg.resource \in DOMAIN offers_by_resource'
               <=> msg.resource \in DOMAIN offers_by_resource
        /\ \A k \in DOMAIN after : after[k] # msg.offer
        /\ after = SelectSeq(before, LAMBDA o : o # msg.offer)
        /\ C16_OthersKept(msg.resource)

C17_StrayStep(e) ==
    /\ estimator[e].fate = "alive"
    /\ Len(history'[e].handled) = Len(history[e].handled) + 1
    /\ Last(history'[e].handled).type = "location_resolved"
    /\ Last(history'[e].handled).rough_location # estimator[e].rough_source
    /\ Last(history'[e].handled).rough_location # estimator[e].rough_destination

C17_Fatal(e) ==
    /\ estimator'[e].fate = "panicked"
    /\ estimator'[e].source = estimator[e].source
    /\ estimator'[e].destination = estimator[e].destination
    /\ estimator'[e].n_resolved = estimator[e].n_resolved
    /\ pathfinding' = pathfinding
    /\ history'[e].requests = history[e].requests
    /\ history'[e].n_replies = history[e].n_replies
    /\ requester' = requester
    /\ estimatorInbox' = estimatorInbox

C17_StrayReplyIsFatal ==
    [][\A e \in DOMAIN estimator : C17_StrayStep(e) => C17_Fatal(e)]_vars

\* C17 witness: an estimator that had heard of its source has panicked on a
\* reply, with a location, that names a third rough location.
C17_Witness ==
    \E e \in DOMAIN estimator :
        /\ estimator[e].fate = "panicked"
        /\ estimator[e].rough_source # estimator[e].rough_destination
        /\ estimator[e].n_resolved = 1
        /\ IsSome(estimator[e].source)
        /\ Last(history[e].handled).rough_location = "l3"
        /\ IsSome(Last(history[e].handled).location)
        /\ history[e].n_replies = 0

\* C18: deals are never changed in place.  No step, Offer.evaluate,
\* request_receive_deal, request_receive_undo_deal and on_distance included,
\* changes the deal, from or to an offer stores, nor the base result an
\* estimator stores, whose deal is the offer's; a reply adjusted for travel
\* has the resource of the base result, as many evaluated deals, the same
\* offers and deltas, and differs from it in duration, from and to only.
C18_OfferKept(o) ==
    (offer[o].fate # "unspawned") =>
        /\ offer'[o].deal = offer[o].deal
        /\ offer'[o].from = offer[o].from
        /\ offer'[o].to = offer[o].to

C18_BaseKept(e) ==
    (Alive(e) /\ estimator'[e].fate = "alive") =>
        estimator'[e].base_result = estimator[e].base_result

C18_CopyOf(e) ==
    LET base == estimator[e].base_result
    IN  \A k \in DOMAIN base.evaluated_deals :
            LET o == base.evaluated_deals[k].offer
            IN  /\ base.evaluated_deals[k].deal = offer[o].deal
                /\ base.evaluated_deals[k].from = offer[o].from
                /\ base.evaluated_deals[k].to = offer[o].to

C18_OnlyTimesDiffer(e) ==
    LET base == estimator[e].base_result
        reply == history[e].replies[1]
    IN  /\ reply.resource = base.resource
        /\ DOMAIN reply = DOMAIN base
        /\ Len(reply.evaluated_deals) = Len(base.evaluated_deals)
        /\ \A k \in DOMAIN reply.evaluated_deals :
               reply.evaluated_deals[k] =
                   [base.evaluated_deals[k] EXCEPT
                       !.deal.duration = reply.evaluated_deals[k].deal.duration,
                       !.from = reply.evaluated_deals[k].from,
                       !.to = reply.evaluated_deals[k].to]

C18_DealsNeverMutated ==
    /\ [][/\ \A o \in OfferIDs : C18_OfferKept(o)
           /\ \A e \in DOMAIN estimator : C18_BaseKept(e)]_vars
    /\ [](\A e \in DOMAIN estimator :
             Alive(e) =>
                 /\ C18_CopyOf(e)
                 /\ (/\ DistancesHandled(e) # <<>>
                     /\ IsSome(Last(history[e].handled).maybe_distance)) =>
                        C18_OnlyTimesDiffer(e))

\* C18 witness: the offer has been evaluated, traded and undone, and the
\* estimator has sent a reply whose deal takes longer than the offer's,
\* which still has its duration.
C18_Witness ==
    \E e \in DOMAIN estimator :
        /\ Alive(e)
        /\ DistancesHandled(e) # <<>>
        /\ LET o == estimator[e].base_result.evaluated_deals[1].offer
           IN  /\ Len(trades[o]) = 2
               /\ trades[o][1].call = "request_receive_deal"
               /\ trades[o][2].call = "request_receive_undo_deal"
               /\ history[e].replies[1].evaluated_deals[1].deal.duration
                      > offer[o].deal.duration
               /\ history[e].replies[1].evaluated_deals[1].deal.delta
                      = offer[o].deal.delta
               /\ offer[o].deal \in Deals

\* C19: an estimator spawned with rough_source identical to rough_destination
\* asks for the location twice and stores both replies into source;
\* destination stays absent, no distance is ever asked, and on the second
\* reply it sends a result without deals and done to itself, even when both
\* replies carry a location; it is dead once nothing is left to handle.
C19_SameRough(e) ==
    /\ Alive(e)
    /\ estimator[e].rough_source = estimator[e].rough_destination

C19_State(e) ==
    /\ estimator[e].destination = None
    /\ Len(LocationsHandled(e)) + Len(resolving[e]) = 2
    /\ \A k \in DOMAIN resolving[e] : resolving[e][k] = estimator[e].rough_source
    /\ LocationsHandled(e) # <<>> =>
           estimator[e].source = Last(LocationsHandled(e)).location
    /\ history[e].requests = <<>>
    /\ pathfinding[e] = <<>>
    /\ DistancesHandled(e) = <<>>
    /\ IF Len(LocationsHandled(e)) = 2
       THEN /\ history[e].replies = << EmptyResult(estimator[e].base_result.resource) >>
            /\ estimatorInbox[e] = << [type |-> "done"] >>
       ELSE /\ history[e].replies = <<>>
            /\ estimatorInbox[e] = <<>>

C20_State(e) ==
    /\ estimator[e].n_resolved \in {0, 1, 2}
    /\ estimator[e].n_resolved = Len(LocationsHandled(e))
    /\ Len(LocationsHandled(e)) + Len(resolving[e]) = 2
    /\ Len(history[e].requests) <= 1
    /\ Len(history[e].requests) = Len(pathfinding[e]) + Len(DistancesHandled(e))
    /\ history[e].requests # <<>> =>
           /\ IsSome(estimator[e].source)
           /\ IsSome(estimator[e].destination)
           /\ history[e].requests[1] = << estimator[e].source, estimator[e].destination >>
    /\ Len(DistancesHandled(e)) <= 1
    /\ (history[e].replies # <<>> /\ DistancesHandled(e) = <<>>) =>
           (pathfinding[e] = <<>> /\ history[e].requests = <<>>)

C20_DistanceStep(e) ==
    /\ Alive(e)
    /\ Len(history'[e].handled) = Len(history[e].handled) + 1
    /\ Last(history'[e].handled).type = "on_distance"

C20_EstimatorInvariant ==
    /\ [](\A e \in DOMAIN estimator : Alive(e) => C20_State(e))
    /\ [][\A e \in DOMAIN estimator :
            C20_DistanceStep(e) =>
                /\ history[e].n_replies = 0
                /\ DistancesHandled(e) = <<>>
                /\ estimator[e].n_resolved = 2]_vars

\* C20 witness: an estimator has heard of both locations, asked the one
\* distance and handled the answer.
C20_Witness ==
    \E e \in DOMAIN estimator :
        /\ Alive(e)
        /\ estimator[e].n_resolved = 2
        /\ Len(history[e].requests) = 1
        /\ Len(DistancesHandled(e)) = 1
        /\ pathfinding[e] = <<>>

====
